---- MODULE Spec2Model ----
(***************************************************************************)
(* Contest-entry submission backend (Express + MongoDB + Stripe).          *)
(*                                                                         *)
(* The repository holds several near-duplicate servers.  Five of them are  *)
(* modelled; `variant' says which one is deployed:                         *)
(*   "serverless"  src/server/server.js 1-536   (in-memory fileStorage)    *)
(*   "disk"        src/server/server.js 538-1319 (multer disk storage)     *)
(*   "base64"      src/unnamed/part_000          (file inline in the doc)  *)
(*   "mock"        src/unnamed/part_002 517-895  (no Stripe lookup)        *)
(*   "memory"      src/unnamed/part_004          (entries in an array)     *)
(*                                                                         *)
(* Money is kept in thousandths of a dollar (Mills), because the "memory"  *)
(* variant computes 2.9% + 0.30 fees that are not whole dollars.           *)
(***************************************************************************)
EXTENDS Integers, Sequences, FiniteSets, TLC

VARIABLES
  variant,        \* which server of the repository is deployed
  stripe,         \* STRIPE_SECRET_KEY is set: the Stripe client exists
  webhookSecret,  \* STRIPE_WEBHOOK_SECRET is set
  intents,        \* Stripe's payment intents, in creation order (id = index)
  entries,        \* the Entry collection / entries array, in insertion order
  nextId,         \* next _id the store hands out
  files,          \* fileStorage Map / uploads directory: key -> bytes
  fileSeq,        \* uploads written so far (disk filenames are unique)
  now,            \* Date.now()
  inflight,       \* submissions suspended between the Stripe lookup and save
  raced,          \* history: intents whose payment_failed event found no entry
                  \* while a submission for the intent was suspended
  persistFailed,  \* history: intents of the submissions whose entry.save() failed
                  \* in the store
  db,             \* the mongoose connection and connectDB's cache
  form,           \* the state of the EntryForm component in the browser
  response        \* the last HTTP response sent

vars == <<variant, stripe, webhookSecret, intents, entries, nextId, files,
          fileSeq, now, inflight, raced, persistFailed, db, form, response>>

----------------------------------------------------------------------------
(* Bounds *)

MaxEntries == 2
MaxIntents == 1
MaxInFlight == 1
MaxUploads == 1
MaxNow == 1
MaxDeliveries == 2
MaxListed == 51
MaxConnects == 3
MaxRequests == 3

----------------------------------------------------------------------------
(* Input domains *)

Variants == {"serverless", "disk", "base64", "mock", "memory"}

Missing == ""
NaN == -1                           \* parseInt(undefined)
Undefined == <<"undefined", 0>>
\* limits: { fileSize: 25 * 1024 * 1024 }, in bytes
fileSize == 25 * 1024 * 1024

NoFile == [name |-> "", mime |-> "", bytes |-> "", size |-> 0]
NoUrl == <<-1, "">>
NoPid == <<"", 0>>
NoData == <<"", "">>
NoMeta == [category |-> "", entryType |-> "", entryFee |-> Undefined,
           stripeFee |-> Undefined]

Owners == {"userA", "userB"}
validCategories == {"business", "creative", "technology", "social-impact"}
validEntryTypes == {"text", "pitch-deck", "video"}
IntentCategoryInputs == {"business", "bogus", Missing}
allowedTypes == {"application/pdf", "application/vnd.ms-powerpoint",
                 "application/vnd.openxmlformats-officedocument.presentationml.presentation"}

IntentTypeInputs == {"text", Missing}
\* which of STRIPE_SECRET_KEY, STRIPE_WEBHOOK_SECRET are set
Environments == {<<TRUE, TRUE>>, <<TRUE, FALSE>>, <<FALSE, TRUE>>}

Mills == 1000
ListLimit == 50

----------------------------------------------------------------------------
(* Fee schedule *)

baseFees(category) ==
  CASE category = "business" -> 49
    [] category = "creative" -> 49
    [] category = "technology" -> 99
    [] category = "social-impact" -> 49
    [] OTHER -> 0          \* undefined: falsy

\* Math.ceil(baseAmount * 0.04), in dollars
calculateFees(baseAmount) ==
  LET stripeFee == (baseAmount * 4 + 99) \div 100
  IN [stripeFee |-> stripeFee, totalAmount |-> baseAmount + stripeFee]

\* entryFee * 0.029 + 0.30, in Mills
memoryFees(category) ==
  LET entryFee == IF baseFees(category) = 0 THEN 49 ELSE baseFees(category)
      stripeFee == entryFee * 29 + 300
  IN [entryFee |-> entryFee * Mills, stripeFee |-> stripeFee,
      totalAmount |-> entryFee * Mills + stripeFee]

\* Number.prototype.toString and parseInt on the metadata strings
ToStr(n) == <<"str", n>>
ParseInt(s) == IF s[1] = "str" THEN s[2] ELSE NaN
Plus(a, b) == IF a = NaN \/ b = NaN THEN NaN ELSE a + b
Dollars(n) == IF n = NaN THEN NaN ELSE n * Mills

----------------------------------------------------------------------------
(* Helpers on the store *)

Range(s) == {s[i] : i \in 1..Len(s)}
Pi(n) == <<"pi", n>>
IntentIds == {Pi(n) : n \in 1..Len(intents)}
Intent(pid) == intents[pid[2]]
Resp(op, status, error) == [op |-> op, status |-> status, error |-> error]
Put(map, key, val) ==
  [k \in DOMAIN map \cup {key} |-> IF k = key THEN val ELSE map[k]]
Drop(map, key) == [k \in DOMAIN map \ {key} |-> map[k]]
RemoveAt(s, i) == SubSeq(s, 1, i - 1) \o SubSeq(s, i + 1, Len(s))
EmptyMap == [k \in {} |-> ""]

\* process.exit(1) / throw at module load when the key is missing
Running == stripe \/ variant \in {"serverless", "base64", "mock"}

----------------------------------------------------------------------------
\* let cachedConnection = null; mongoose not connected; no connectDB call yet
NoConnection == [cached |-> FALSE, readyState |-> 0, connects |-> 0, last |-> "none"]

NoSecret == [category |-> "", entryType |-> "", seq |-> 0]

\* useState(...) of EntryForm: empty form, no clientSecret, step 1
EmptyForm ==
  [category |-> "", entryType |-> "", clientSecret |-> NoSecret, step |-> 1,
   loading |-> FALSE, sent |-> 0, pending |-> {}]

\* Everything but the choice of the server
InitState ==
  /\ db = NoConnection
  /\ form = EmptyForm
  /\ \E env \in Environments : stripe = env[1] /\ webhookSecret = env[2]
  /\ intents = <<>>
  /\ entries = <<>>
  /\ nextId = 1
  /\ files = EmptyMap
  /\ fileSeq = 0
  /\ now = 0
  /\ inflight = {}
  /\ raced = {}
  /\ persistFailed = {}
  /\ response = Resp("none", 0, "")

Init ==
  /\ variant \in Variants
  /\ InitState

\* Time passes.  Only the order and the equality of timestamps matter, so the
\* clock starts with the first timestamp that is kept.
Tick ==
  /\ now < MaxNow
  /\ entries # <<>> \/ DOMAIN files # {}
  /\ now' = now + 1
  /\ UNCHANGED <<variant, stripe, webhookSecret, db, form, raced, persistFailed,
                 intents, entries, nextId, files, fileSeq, inflight, response>>

\* POST /api/create-payment-intent
IntentMetadata(category, entryType) ==
  IF variant = "memory" THEN NoMeta
  ELSE [category |-> category, entryType |-> entryType,
        entryFee |-> ToStr(baseFees(category)),
        stripeFee |-> ToStr(calculateFees(baseFees(category)).stripeFee)]

IntentAmount(category) ==
  IF variant = "memory"
    THEN (memoryFees(category).totalAmount + 5) \div 10  \* Math.round(total * 100)
    ELSE calculateFees(baseFees(category)).totalAmount * 100

CreateIntentError(category, entryType) ==
  CASE variant = "memory" -> Resp("createIntent", 200, "")
    [] ~stripe -> Resp("createIntent", 500, "Stripe not initialized")
    [] category = Missing \/ entryType = Missing ->
         Resp("createIntent", 400, "Category and entryType are required")
    [] baseFees(category) = 0 -> Resp("createIntent", 400, "Invalid category")
    [] OTHER -> Resp("createIntent", 200, "")

CreatePaymentIntent(category, entryType) ==
  /\ Running
  /\ LET r == CreateIntentError(category, entryType) IN
       /\ response' = r
       /\ IF r.status = 200
            THEN /\ Len(intents) < MaxIntents
                 /\ intents' = Append(intents,
                      [status |-> "requires_payment_method",
                       amount |-> IntentAmount(category),
                       metadata |-> IntentMetadata(category, entryType)])
            ELSE UNCHANGED intents
  /\ UNCHANGED <<variant, stripe, webhookSecret, db, form, raced, persistFailed,
                 entries, nextId, files, fileSeq, now, inflight>>

\* The client confirms the payment with Stripe (stripe.confirmCardPayment).
ClientPays(p) ==
  /\ p \in 1..Len(intents)
  /\ intents[p].status = "requires_payment_method"
  /\ intents' = [intents EXCEPT ![p].status = "succeeded"]
  /\ UNCHANGED <<variant, stripe, webhookSecret, db, form, raced, persistFailed,
                 entries, nextId, files, fileSeq, now, inflight, response>>

----------------------------------------------------------------------------
(* POST /api/entries *)

\* An allowed file of exactly the largest accepted size
GoodFile == [name |-> "deck.pdf", mime |-> "application/pdf", bytes |-> "b1",
             size |-> fileSize]

\* Well-formed submissions ...
Request(u, c, t, n) ==
  [userId |-> u, category |-> c, entryType |-> t, titleLen |-> 5,
   textWords |-> IF t = "text" THEN 100 ELSE 0,
   file |-> IF t = "pitch-deck" THEN GoodFile ELSE NoFile,
   paymentIntentId |-> Pi(n)]

GoodRequests ==
  UNION {{Request("userA", "technology", "pitch-deck", n),
          Request("userB", "business", "text", n)} : n \in 1..MaxIntents}

\* ... and the same with one field missing or wrong.
Defects(r) ==
  IF r.entryType = "text"
    THEN {[r EXCEPT !.titleLen = 0], [r EXCEPT !.textWords = 99]}
    ELSE {[r EXCEPT !.titleLen = 4], [r EXCEPT !.file = NoFile],
          [r EXCEPT !.file.mime = "text/plain"], [r EXCEPT !.file.size = fileSize + 1]}

SubmitRequests ==
  GoodRequests \cup Defects(Request("userB", "business", "text", 1))
               \cup Defects(Request("userA", "technology", "pitch-deck", 1))

\* multer: fileFilter, then limits.fileSize; "" when the upload is accepted
UploadError(file) ==
  CASE file = NoFile -> ""
    [] file.mime \notin allowedTypes -> "Invalid file type"
    [] file.size > fileSize -> "File size exceeds 25MB limit"
    [] OTHER -> ""

MissingRequired(req) ==
  \/ req.userId = Missing
  \/ req.category = Missing
  \/ req.entryType = Missing
  \/ req.titleLen = 0
  \/ req.paymentIntentId = NoPid

\* Checks of the handler that run before stripe.paymentIntents.retrieve.
\* The result is the response to send, or status 0 to go on.
PreCheck(req, dbOk) ==
  CASE variant = "serverless" ->
         IF ~dbOk THEN Resp("submit", 500, "Internal server error")
         ELSE IF UploadError(req.file) # "" THEN Resp("submit", 400, UploadError(req.file))
         ELSE IF MissingRequired(req) THEN Resp("submit", 400, "Missing required fields")
         ELSE IF ~stripe THEN Resp("submit", 500, "Payment verification unavailable")
         ELSE Resp("submit", 0, "")
    [] variant = "disk" ->
         IF UploadError(req.file) # "" THEN Resp("submit", 400, UploadError(req.file))
         ELSE IF MissingRequired(req) THEN Resp("submit", 400, "Missing required fields")
         ELSE IF req.category \notin validCategories THEN Resp("submit", 400, "Invalid category")
         ELSE IF req.entryType \notin validEntryTypes THEN Resp("submit", 400, "Invalid entry type")
         ELSE IF req.entryType = "pitch-deck" /\ req.file = NoFile
           THEN Resp("submit", 400, "File required for pitch-deck entries")
         ELSE IF req.entryType = "text" /\ req.textWords = 0
           THEN Resp("submit", 400, "Text content required for text entries")
         ELSE Resp("submit", 0, "")
    [] OTHER ->  \* base64
         IF UploadError(req.file) # "" THEN Resp("submit", 500, "Internal server error")
         ELSE IF ~dbOk THEN Resp("submit", 500, "Internal server error")
         ELSE IF MissingRequired(req) THEN Resp("submit", 400, "Missing required fields")
         ELSE IF req.entryType = "pitch-deck" /\ req.file = NoFile
           THEN Resp("submit", 400, "File required for pitch-deck entries")
         ELSE IF ~stripe THEN Resp("submit", 500, "Internal server error")
         ELSE Resp("submit", 0, "")

\* stripe.paymentIntents.retrieve and the status gate
PaymentCheckConsumed(req) ==
  IF req.paymentIntentId \notin IntentIds
    THEN IF variant = "disk" THEN Resp("submit", 400, "Invalid payment intent ID")
         ELSE Resp("submit", 500, "Failed to submit entry")
  ELSE IF Intent(req.paymentIntentId).status # "succeeded"
            \/ req.paymentIntentId \in persistFailed
    THEN Resp("submit", 400, "Payment not completed")
  ELSE Resp("submit", 0, "")

PaymentCheck(req) ==
  IF req.paymentIntentId \notin IntentIds
    THEN IF variant = "disk" THEN Resp("submit", 400, "Invalid payment intent ID")
         ELSE Resp("submit", 500, "Failed to submit entry")
  ELSE IF Intent(req.paymentIntentId).status # "succeeded"
    THEN Resp("submit", 400, "Payment not completed")
  ELSE Resp("submit", 0, "")

\* multer.diskStorage writes the accepted upload before the handler runs
DiskUpload(req) ==
  variant = "disk" /\ req.file # NoFile /\ UploadError(req.file) = ""

\* First half of the handler: up to the payment gate.  A request that passes
\* is suspended (await) with the fees read from the intent's metadata.
SubmitReceive(req, dbOk) ==
  /\ Running
  /\ variant \in {"serverless", "disk", "base64"}
  /\ IF DiskUpload(req)
       THEN /\ fileSeq < MaxUploads
            /\ fileSeq' = fileSeq + 1
            /\ files' = Put(files, <<fileSeq + 1, req.file.name>>, req.file.bytes)
       ELSE UNCHANGED <<files, fileSeq>>
  /\ LET pre == PreCheck(req, dbOk)
         pay == IF pre.status = 0 THEN PaymentCheck(req) ELSE pre
     IN IF pay.status # 0
          THEN /\ response' = pay
               /\ UNCHANGED inflight
          ELSE /\ Cardinality(inflight) < MaxInFlight
               /\ inflight' = inflight \cup
                    {[req |-> req,
                      entryFee |-> ParseInt(Intent(req.paymentIntentId).metadata.entryFee),
                      stripeFee |-> ParseInt(Intent(req.paymentIntentId).metadata.stripeFee),
                      fileUrl |-> IF DiskUpload(req)
                                    THEN <<fileSeq + 1, req.file.name>> ELSE NoUrl]}
               /\ UNCHANGED response
  /\ UNCHANGED <<variant, stripe, webhookSecret, db, form, raced, persistFailed,
                 intents, entries, nextId, now>>

\* The mongoose schema validators that run inside entry.save()
SchemaValid(e) ==
  /\ e.userId # Missing
  /\ e.category \in validCategories
  /\ e.entryType \in validEntryTypes
  /\ e.titleLen >= 5 /\ e.titleLen <= 100
  /\ e.entryFee # NaN /\ e.stripeFee # NaN /\ e.totalAmount # NaN
  /\ (variant \in {"serverless", "disk", "base64"} /\ e.entryType = "text")
       => (e.textWords >= 100 /\ e.textWords <= 2000)
  /\ (variant = "disk" /\ e.entryType = "pitch-deck") => e.fileUrl # NoUrl
  /\ (variant = "base64" /\ e.entryType = "pitch-deck") => e.fileData # NoData

\* `data:<mime>;base64,<...>` and Buffer.from(fileData.split(',')[1], 'base64')
Base64Encode(file) == <<file.mime, file.bytes>>
Base64Decode(data) == data[2]

EntryDataDefaultStatus(req, fees, fileUrl, fileData, via) ==
  [id |-> nextId, userId |-> req.userId, category |-> req.category,
   entryType |-> req.entryType, titleLen |-> req.titleLen,
   textWords |-> IF req.entryType = "text" THEN req.textWords ELSE 0,
   fileUrl |-> fileUrl, fileData |-> fileData,
   entryFee |-> fees.entryFee, stripeFee |-> fees.stripeFee,
   totalAmount |-> fees.totalAmount,
   paymentIntentId |-> req.paymentIntentId, paymentStatus |-> "pending",
   via |-> via, transitions |-> 0, deliveries |-> 0, createdAt |-> now,
   uploaded |-> req.file.bytes]   \* history: the bytes that came with the request

EntryData(req, fees, fileUrl, fileData, via) ==
  [id |-> nextId, userId |-> req.userId, category |-> req.category,
   entryType |-> req.entryType, titleLen |-> req.titleLen,
   textWords |-> IF req.entryType = "text" THEN req.textWords ELSE 0,
   fileUrl |-> fileUrl, fileData |-> fileData,
   entryFee |-> fees.entryFee, stripeFee |-> fees.stripeFee,
   totalAmount |-> fees.totalAmount,
   paymentIntentId |-> req.paymentIntentId, paymentStatus |-> "succeeded",
   via |-> via, transitions |-> 0, deliveries |-> 0, createdAt |-> now,
   uploaded |-> req.file.bytes]   \* history: the bytes that came with the request

MetadataFeesCharged(f) ==
  [entryFee |-> Dollars(f.entryFee), stripeFee |-> Dollars(f.stripeFee),
   totalAmount |-> Dollars(f.entryFee)]

\* Amounts copied from the intent metadata: parseInt, then entryFee + stripeFee
MetadataFees(f) ==
  [entryFee |-> Dollars(f.entryFee), stripeFee |-> Dollars(f.stripeFee),
   totalAmount |-> Dollars(Plus(f.entryFee, f.stripeFee))]

\* The payload checks between the payment gate and entry.save()
PayloadError(req) ==
  CASE variant # "serverless" -> ""
    [] req.entryType = "text" /\ req.textWords = 0 -> "Text content required"
    [] req.entryType = "pitch-deck" /\ req.file = NoFile -> "File required for pitch deck"
    [] OTHER -> ""

\* fileStorage.set(Date.now() + '_' + originalname, buffer)
StoresInMap(req) ==
  variant = "serverless" /\ req.entryType = "pitch-deck" /\ req.file # NoFile

InsertUpTo(e, cap) ==
  /\ nextId <= cap
  /\ entries' = Append(entries, e)
  /\ nextId' = nextId + 1

Insert(e) == InsertUpTo(e, MaxEntries)

\* Second half of the handler: build the entry and save it.
SavedFileUrl(f) ==
  IF StoresInMap(f.req) THEN <<now, f.req.file.name>> ELSE
  IF f.req.entryType = "pitch-deck" THEN f.fileUrl ELSE NoUrl

SavedEntry(f) ==
  LET req == f.req
      fileData == IF variant = "base64" /\ req.entryType = "pitch-deck" /\ req.file # NoFile
                    THEN Base64Encode(req.file) ELSE NoData
  IN EntryData(req, MetadataFees(f), SavedFileUrl(f), fileData, "submit-verified")

SubmitSaveStep(f, dbOk) ==
  /\ f \in inflight
  /\ inflight' = inflight \ {f}
  /\ LET req == f.req
         fileUrl == SavedFileUrl(f)
         e == SavedEntry(f)
     IN IF PayloadError(req) # ""
          THEN /\ response' = Resp("submit", 400, PayloadError(req))
               /\ UNCHANGED <<entries, nextId, files>>
          ELSE /\ files' = IF StoresInMap(req) THEN Put(files, fileUrl, req.file.bytes)
                           ELSE files
               /\ IF ~SchemaValid(e)
                    THEN /\ response' = IF variant = "disk"
                                          THEN Resp("submit", 400, "Validation failed")
                                          ELSE Resp("submit", 500, "Failed to submit entry")
                         /\ UNCHANGED <<entries, nextId>>
                  ELSE IF ~dbOk
                    THEN /\ response' = Resp("submit", 500, "Failed to submit entry")
                         /\ UNCHANGED <<entries, nextId>>
                  ELSE /\ Insert(e)
                       /\ response' = Resp("submit", 201, "")
  /\ UNCHANGED <<variant, stripe, webhookSecret, db, form, raced, intents,
                 fileSeq, now>>

SubmitSave(f, dbOk) ==
  /\ SubmitSaveStep(f, dbOk)
  /\ UNCHANGED persistFailed

\* entry.save() was reached with a valid entry and the store failed.
PersistFails(f, dbOk) ==
  /\ ~dbOk
  /\ PayloadError(f.req) = ""
  /\ SchemaValid(SavedEntry(f))

\* The same step, recording the intents whose entry could not be persisted.
SubmitSaveLogged(f, dbOk) ==
  /\ SubmitSaveStep(f, dbOk)
  /\ persistFailed' = IF PersistFails(f, dbOk)
                        THEN persistFailed \cup {f.req.paymentIntentId}
                        ELSE persistFailed

\* The two servers that persist without asking Stripe.
RecomputedFees(category) ==
  IF variant = "memory" THEN memoryFees(category)
  ELSE LET entryFee == IF baseFees(category) = 0 THEN 49 ELSE baseFees(category)
       IN [entryFee |-> entryFee * Mills,
           stripeFee |-> calculateFees(entryFee).stripeFee * Mills,
           totalAmount |-> calculateFees(entryFee).totalAmount * Mills]

SubmitUnverifiedUpTo(req, dbOk, cap) ==
  /\ Running
  /\ variant \in {"mock", "memory"}
  /\ LET stored == variant = "memory" /\ req.file # NoFile
         fileUrl == IF stored THEN <<now, req.file.name>> ELSE NoUrl
         e == [EntryData(req, RecomputedFees(req.category), fileUrl, NoData,
                         "submit-unverified")
                 EXCEPT !.textWords = IF variant = "memory" THEN req.textWords ELSE @]
     IN /\ files' = IF stored THEN Put(files, fileUrl, req.file.bytes) ELSE files
        /\ IF variant = "mock" /\ ~dbOk
             THEN /\ response' = Resp("submit", 500, "Internal server error")
                  /\ UNCHANGED <<entries, nextId>>
           ELSE IF MissingRequired(req)
             THEN /\ response' = Resp("submit", 400, "Missing required fields")
                  /\ UNCHANGED <<entries, nextId>>
           ELSE IF variant = "mock" /\ ~SchemaValid(e)
             THEN /\ response' = Resp("submit", 500, "Internal server error")
                  /\ UNCHANGED <<entries, nextId>>
           ELSE /\ InsertUpTo(e, cap)
                /\ response' = Resp("submit", IF variant = "mock" THEN 201 ELSE 200, "")
  /\ UNCHANGED <<variant, stripe, webhookSecret, db, form, raced, persistFailed,
                 intents, fileSeq, now, inflight>>

SubmitUnverified(req, dbOk) == SubmitUnverifiedUpTo(req, dbOk, MaxEntries)

\* GET /api/create-test-entry/:userId
TestFees ==
  IF variant = "memory"
    THEN [entryFee |-> 49 * Mills, stripeFee |-> 1720, totalAmount |-> 50720]
    ELSE [entryFee |-> 49 * Mills, stripeFee |-> 2 * Mills, totalAmount |-> 51 * Mills]

\* GET /api/create-test-entries/:userId: the amounts of the sample entries,
\* written out in the mongoose servers and rounded to cents in the in-memory one
\* (Math.round(x * 100) / 100).
BulkTestFees ==
  CASE variant \in {"disk", "base64"} ->
         {[entryFee |-> 49 * Mills, stripeFee |-> 2 * Mills, totalAmount |-> 51 * Mills],
          [entryFee |-> 99 * Mills, stripeFee |-> 4 * Mills, totalAmount |-> 103 * Mills]}
    [] variant = "memory" ->
         {LET stripeFee == entryFee * 29 + 300
              totalAmount == entryFee * Mills + stripeFee
          IN [entryFee |-> entryFee * Mills,
              stripeFee |-> ((stripeFee + 5) \div 10) * 10,
              totalAmount |-> ((totalAmount + 5) \div 10) * 10] : entryFee \in {49, 99}}
    [] OTHER -> {}

TestWords ==
  CASE variant = "serverless" -> 1350
    [] variant = "disk" -> 650
    [] variant = "base64" -> 123
    [] OTHER -> 140

\* 'pi_test_' + Date.now(), with a random suffix in two of the servers
TestPid ==
  IF variant \in {"disk", "memory"} THEN <<"pi_test_rnd", nextId>>
  ELSE <<"pi_test", now>>

CreateTestEntry(userId, dbOk) ==
  /\ Running
  /\ variant \in {"serverless", "disk", "base64", "memory"}
  /\ LET req == [userId |-> userId, category |-> "business", entryType |-> "text",
                 titleLen |-> 19, textWords |-> TestWords, file |-> NoFile,
                 paymentIntentId |-> TestPid]
         e == EntryData(req, TestFees, NoUrl, NoData, "test")
     IN IF variant # "memory" /\ ~dbOk
          THEN /\ response' = Resp("testEntry", 500, "Failed to create test entry")
               /\ UNCHANGED <<entries, nextId>>
          ELSE /\ Insert(e)
               /\ response' = Resp("testEntry", 200, "")
  /\ UNCHANGED <<variant, stripe, webhookSecret, db, form, raced, persistFailed,
                 intents, files, fileSeq, now, inflight>>

----------------------------------------------------------------------------
(* POST /api/webhook *)

EventTypes == {"payment_intent.payment_failed", "payment_intent.succeeded"}

\* Entry.findOneAndUpdate({ paymentIntentId }, { paymentStatus: 'failed' }):
\* the first matching document is updated, none when there is no match.
MatchingAll(pid) == {i \in 1..Len(entries) : TRUE}

Matching(pid) == {i \in 1..Len(entries) : entries[i].paymentIntentId = pid}
FirstMatch(pid) == CHOOSE i \in Matching(pid) : \A j \in Matching(pid) : i <= j
\* `transitions' and `deliveries' are history fields: how often the status of
\* the entry changed, and how many payment_failed events reached it.
Touched(e, status) ==
  [e EXCEPT !.paymentStatus = status,
            !.transitions = IF e.paymentStatus = status THEN @ ELSE @ + 1,
            !.deliveries = IF @ < MaxDeliveries THEN @ + 1 ELSE @]

MarkFailedToggle(e) ==
  Touched(e, IF e.paymentStatus = "failed" THEN "succeeded" ELSE "failed")

MarkFailed(e) == Touched(e, "failed")

FindOneAndUpdateUpsert(pid) ==
  IF Matching(pid) = {}
    THEN Append(entries, [id |-> 0, userId |-> Missing, category |-> Missing,
                          entryType |-> Missing, titleLen |-> 0, textWords |-> 0,
                          fileUrl |-> NoUrl, fileData |-> NoData, entryFee |-> NaN,
                          stripeFee |-> NaN, totalAmount |-> NaN,
                          paymentIntentId |-> pid, paymentStatus |-> "failed",
                          via |-> "webhook", transitions |-> 0, deliveries |-> 1,
                          createdAt |-> now, uploaded |-> NoFile.bytes])
  ELSE [entries EXCEPT ![FirstMatch(pid)] = MarkFailed(@)]

FindOneAndUpdate(pid) ==
  IF Matching(pid) = {} THEN entries
  ELSE [entries EXCEPT ![FirstMatch(pid)] = MarkFailed(@)]

\* express.raw() must see the request before express.json() does: one server
\* registers express.json() first, so constructEvent gets a parsed object and
\* throws whatever the signature is.
RawBody == variant # "base64"

\* What the handler answers before it looks at the event; status 0: go on.
WebhookGate(sigValid) ==
  CASE variant = "serverless" ->
         IF ~stripe \/ ~webhookSecret THEN Resp("webhook", 200, "")
         ELSE IF ~sigValid THEN Resp("webhook", 400, "Webhook Error")
         ELSE Resp("webhook", 0, "")
    [] variant = "disk" ->
         IF ~webhookSecret THEN Resp("webhook", 200, "")
         ELSE IF ~sigValid THEN Resp("webhook", 400, "Webhook Error")
         ELSE Resp("webhook", 0, "")
    [] variant = "base64" ->
         IF ~webhookSecret \/ ~stripe \/ ~sigValid \/ ~RawBody
           THEN Resp("webhook", 500, "Internal server error")
         ELSE Resp("webhook", 0, "")
    [] OTHER ->  \* memory
         IF ~webhookSecret \/ ~sigValid THEN Resp("webhook", 400, "Webhook Error")
         ELSE Resp("webhook", 0, "")

\* The event is handled, finds no entry, and a submission for the same intent
\* has passed the payment gate but is not saved yet.
Overtakes(pid, type, sigValid, dbOk) ==
  /\ WebhookGate(sigValid).status = 0
  /\ type = "payment_intent.payment_failed" /\ variant # "memory" /\ dbOk
  /\ Matching(pid) = {}
  /\ \E f \in inflight : f.req.paymentIntentId = pid

WebhookStep(pid, type, sigValid, dbOk) ==
  /\ Running
  /\ variant \in {"serverless", "disk", "base64", "memory"}
  /\ sigValid => pid \in IntentIds      \* Stripe signs events of its own intents
  /\ LET gate == WebhookGate(sigValid) IN
       IF gate.status # 0
         THEN response' = gate /\ UNCHANGED entries
       ELSE IF type # "payment_intent.payment_failed" \/ variant = "memory"
         THEN response' = Resp("webhook", 200, "") /\ UNCHANGED entries
       ELSE IF ~dbOk
         THEN /\ response' = IF variant = "disk" THEN Resp("webhook", 200, "")
                             ELSE Resp("webhook", 500, "Internal server error")
              /\ UNCHANGED entries
       ELSE /\ entries' = FindOneAndUpdate(pid)
            /\ response' = Resp("webhook", 200, "")
  /\ UNCHANGED <<variant, stripe, webhookSecret, db, form, persistFailed,
                 intents, nextId, files, fileSeq, now, inflight>>

Webhook(pid, type, sigValid, dbOk) ==
  /\ WebhookStep(pid, type, sigValid, dbOk)
  /\ UNCHANGED raced

\* The same handler, recording the intents whose payment_failed event
\* found no entry while their submission was in flight.
WebhookRaced(pid, type, sigValid, dbOk) ==
  /\ WebhookStep(pid, type, sigValid, dbOk)
  /\ raced' = IF Overtakes(pid, type, sigValid, dbOk) THEN raced \cup {pid} ELSE raced

----------------------------------------------------------------------------
(* DELETE /api/entries/:id *)

IndexOf(id) == {i \in 1..Len(entries) : entries[i].id = id}
Found(id) == entries[CHOOSE i \in IndexOf(id) : TRUE]

\* the response of the handler; 200 means the entry is removed
DeleteResponse(id, userId, dbOk) ==
  CASE variant = "memory" ->
         IF IndexOf(id) = {} \/ Found(id).userId # userId
           THEN Resp("delete", 404, "Entry not found or unauthorized")
         ELSE Resp("delete", 200, "")
    [] variant = "base64" ->
         IF ~dbOk \/ id = 0 THEN Resp("delete", 500, "Internal server error")
         ELSE IF IndexOf(id) = {} THEN Resp("delete", 404, "Entry not found")
         ELSE IF Found(id).userId # userId
           THEN Resp("delete", 403, "Not authorized to delete this entry")
         ELSE Resp("delete", 200, "")
    [] OTHER ->  \* serverless, disk
         IF variant = "serverless" /\ ~dbOk THEN Resp("delete", 500, "Internal server error")
         ELSE IF id = 0
           THEN Resp("delete", 400, IF variant = "disk" THEN "Invalid entry ID format"
                                    ELSE "Invalid entry ID")
         ELSE IF userId = Missing THEN Resp("delete", 400, "User ID required")
         ELSE IF ~dbOk THEN Resp("delete", 500, "Failed to delete entry")
         ELSE IF IndexOf(id) = {} THEN Resp("delete", 404, "Entry not found")
         ELSE IF Found(id).userId # userId
           THEN Resp("delete", 403, IF variant = "disk"
                                      THEN "Not authorized to delete this entry"
                                    ELSE "Not authorized")
         ELSE Resp("delete", 200, "")

\* fs.unlinkSync of the entry's upload: only two servers do it
UnlinksFile(e) ==
  \/ variant = "disk" /\ e.entryType = "pitch-deck" /\ e.fileUrl # NoUrl
  \/ variant = "memory" /\ e.fileUrl # NoUrl

DeleteEntry(id, userId, dbOk) ==
  /\ Running
  /\ variant \in {"serverless", "disk", "base64", "memory"}
  /\ LET r == DeleteResponse(id, userId, dbOk) IN
       /\ response' = r
       /\ IF r.status = 200
            THEN /\ entries' = RemoveAt(entries, CHOOSE i \in IndexOf(id) : TRUE)
                 /\ files' = IF UnlinksFile(Found(id)) /\ Found(id).fileUrl \in DOMAIN files
                               THEN Drop(files, Found(id).fileUrl) ELSE files
            ELSE UNCHANGED <<entries, files>>
  /\ UNCHANGED <<variant, stripe, webhookSecret, db, form, raced, persistFailed,
                 intents, nextId, fileSeq, now, inflight>>

----------------------------------------------------------------------------
(* GET /api/entries/:userId, GET /api/entry/:id and the file endpoints *)

RespBody(op, body) == [op |-> op, status |-> 200, error |-> "", body |-> body]

\* .sort({ createdAt: -1 }): newest first, entries of the same instant stay
\* in their stored order.
InsertByDate(e, s) ==
  LET k == Cardinality({i \in 1..Len(s) : s[i].createdAt >= e.createdAt})
  IN SubSeq(s, 1, k) \o <<e>> \o SubSeq(s, k + 1, Len(s))

RECURSIVE SortNewestFirst(_)
SortNewestFirst(s) ==
  IF s = <<>> THEN <<>>
  ELSE InsertByDate(s[Len(s)], SortNewestFirst(SubSeq(s, 1, Len(s) - 1)))

OwnedBy(userId) == SelectSeq(entries, LAMBDA e : e.userId = userId)

\* .limit(50) in one server
Limited(s) ==
  IF variant = "mock" /\ Len(s) > ListLimit THEN SubSeq(s, 1, ListLimit) ELSE s

ListViewFull(e) == e

\* .select('-fileData')
ListView(e) == IF variant = "base64" THEN [e EXCEPT !.fileData = NoData] ELSE e

ListResult(userId) ==
  LET found == Limited(SortNewestFirst(OwnedBy(userId)))
  IN [i \in 1..Len(found) |-> ListView(found[i])]

ListResponse(userId, dbOk) ==
  CASE variant = "memory" -> RespBody("list", ListResult(userId))
    [] variant = "disk" ->
         IF userId = Missing THEN Resp("list", 400, "Valid userId required")
         ELSE IF ~dbOk THEN Resp("list", 500, "Failed to fetch entries")
         ELSE RespBody("list", ListResult(userId))
    [] variant = "base64" ->
         IF ~dbOk THEN Resp("list", 500, "Internal server error")
         ELSE RespBody("list", ListResult(userId))
    [] OTHER ->  \* serverless, mock
         IF ~dbOk THEN Resp("list", 500, "Internal server error")
         ELSE IF userId = Missing THEN Resp("list", 400, "Valid userId required")
         ELSE RespBody("list", ListResult(userId))

ListEntries(userId, dbOk) ==
  /\ Running
  /\ response' = ListResponse(userId, dbOk)
  /\ UNCHANGED <<variant, stripe, webhookSecret, db, form, raced, persistFailed,
                 intents, entries, nextId, files, fileSeq, now, inflight>>

FetchResponse(id, dbOk) ==
  CASE variant = "base64" ->
         IF ~dbOk \/ id = 0 THEN Resp("fetch", 500, "Internal server error")
         ELSE IF IndexOf(id) = {} THEN Resp("fetch", 404, "Entry not found")
         ELSE RespBody("fetch", Found(id))
    [] variant = "disk" ->
         IF id = 0 THEN Resp("fetch", 400, "Invalid entry ID format")
         ELSE IF ~dbOk THEN Resp("fetch", 500, "Failed to fetch entry")
         ELSE IF IndexOf(id) = {} THEN Resp("fetch", 404, "Entry not found")
         ELSE RespBody("fetch", Found(id))
    [] OTHER ->  \* serverless
         IF ~dbOk THEN Resp("fetch", 500, "Internal server error")
         ELSE IF id = 0 THEN Resp("fetch", 400, "Invalid entry ID")
         ELSE IF IndexOf(id) = {} THEN Resp("fetch", 404, "Entry not found")
         ELSE RespBody("fetch", Found(id))

FetchEntry(id, dbOk) ==
  /\ Running
  /\ variant \in {"serverless", "disk", "base64"}
  /\ response' = FetchResponse(id, dbOk)
  /\ UNCHANGED <<variant, stripe, webhookSecret, db, form, raced, persistFailed,
                 intents, entries, nextId, files, fileSeq, now, inflight>>

\* GET /api/entry/:id/download: the bytes decoded from the stored data URL
DownloadResponse(id, dbOk) ==
  IF ~dbOk \/ id = 0 THEN Resp("download", 500, "Internal server error")
  ELSE IF IndexOf(id) = {} THEN Resp("download", 404, "Entry not found")
  ELSE IF Found(id).fileData = NoData
    THEN Resp("download", 404, "No file associated with this entry")
  ELSE RespBody("download", Base64Decode(Found(id).fileData))

DownloadEntry(id, dbOk) ==
  /\ Running
  /\ variant = "base64"
  /\ response' = DownloadResponse(id, dbOk)
  /\ UNCHANGED <<variant, stripe, webhookSecret, db, form, raced, persistFailed,
                 intents, entries, nextId, files, fileSeq, now, inflight>>

\* GET /api/files/:fileId, and express.static on the uploads directory
FileKeys == {<<t, GoodFile.name>> : t \in (0..MaxNow) \cup (1..MaxUploads)}

FileResponse(key) ==
  IF key \in DOMAIN files THEN RespBody("file", files[key])
  ELSE Resp("file", 404, "File not found")

GetFile(key) ==
  /\ Running
  /\ variant \in {"serverless", "disk", "memory"}
  /\ response' = FileResponse(key)
  /\ UNCHANGED <<variant, stripe, webhookSecret, db, form, raced, persistFailed,
                 intents, entries, nextId, files, fileSeq, now, inflight>>

\* GET /api/health.  dbOk: the database is configured and reachable.  One
\* server connects before it answers and one has no such route.
HealthResponse(dbOk) ==
  CASE variant = "serverless" ->
         IF dbOk THEN RespBody("health", [database |-> "connected"])
         ELSE Resp("health", 500, "ERROR")
    [] variant = "memory" -> Resp("health", 404, "Cannot GET /api/health")
    [] OTHER -> RespBody("health", [database |-> IF dbOk THEN "connected"
                                                     ELSE "disconnected"])

Health(dbOk) ==
  /\ Running
  /\ response' = HealthResponse(dbOk)
  /\ UNCHANGED <<variant, stripe, webhookSecret, db, form, raced, persistFailed,
                 intents, entries, nextId, files, fileSeq, now, inflight>>

----------------------------------------------------------------------------
(* connectDB *)

\* The servers that call connectDB in their handlers; "json" is
\* src/unnamed/part_003, which takes the file as base64 text in the JSON body.
ConnVariants == {"serverless", "base64", "mock", "json"}

\* The test at the top of connectDB: return without connecting
Reuses(d) ==
  CASE variant = "base64" -> d.readyState = 1
    [] variant = "json" -> d.cached
    [] OTHER -> d.cached /\ d.readyState = 1   \* cachedConnection / isConnected

\* connectDB on connection state d; reachable: mongoose.connect resolves
connectDB(d, reachable) ==
  IF Reuses(d) THEN [d EXCEPT !.last = "reused"]
  ELSE IF reachable
    THEN [cached |-> variant # "base64", readyState |-> 1,
          connects |-> d.connects + 1, last |-> "connected"]
  ELSE [cached |-> variant = "json" /\ d.cached, readyState |-> 0,
        connects |-> d.connects + 1, last |-> "threw"]

ConnectDB(reachable) ==
  /\ Running
  /\ variant \in ConnVariants
  /\ db.connects < MaxConnects
  /\ db' = connectDB(db, reachable)
  /\ UNCHANGED <<variant, stripe, webhookSecret, form, raced, persistFailed,
                 intents, entries, nextId, files, fileSeq, now, inflight, response>>

\* The connection drops: mongoose emits 'disconnected', readyState becomes 0.
ConnectionLost ==
  /\ db.readyState = 1
  /\ db' = [db EXCEPT !.readyState = 0]
  /\ UNCHANGED <<variant, stripe, webhookSecret, form, raced, persistFailed,
                 intents, entries, nextId, files, fileSeq, now, inflight, response>>

----------------------------------------------------------------------------
(* EntryForm.jsx *)

\* What the user picks in the two select boxes
FormCategories == {"business", "technology"}
FormTypes == {"text", "pitch-deck"}

\* fetch(create-payment-intent) with body { category, entryType }, not yet
\* answered.  `seq' is the order in which the requests were sent.
Fetch(f, category, entryType, kind) ==
  [f EXCEPT !.sent = @ + 1,
            !.pending = @ \cup {[category |-> category, entryType |-> entryType,
                                 kind |-> kind, seq |-> f.sent + 1]}]

\* handleCategoryChange as called from a handler of the render that shows
\* form state f: formData is the one of that render.
handleCategoryChange(f, g, category) ==
  IF category # "" /\ f.entryType # ""
    THEN Fetch(g, category, f.entryType, "change")
    ELSE g

\* handleInputChange for the category select
ChangeCategory(category) ==
  /\ form.step = 1
  /\ form.sent < MaxRequests
  /\ form' = handleCategoryChange(form, [form EXCEPT !.category = category], category)
  /\ UNCHANGED <<variant, stripe, webhookSecret, db, raced, persistFailed, intents,
                 entries, nextId, files, fileSeq, now, inflight, response>>

\* handleInputChange for the entryType select
ChangeEntryType(entryType) ==
  /\ form.step = 1
  /\ form.sent < MaxRequests
  /\ form' = IF form.category # ""
               THEN handleCategoryChange(form, [form EXCEPT !.entryType = entryType],
                                         form.category)
               ELSE [form EXCEPT !.entryType = entryType]
  /\ UNCHANGED <<variant, stripe, webhookSecret, db, raced, persistFailed, intents,
                 entries, nextId, files, fileSeq, now, inflight, response>>

\* handleFormSubmit up to its fetch; the other fields of the form are valid
FormSubmit ==
  /\ form.step = 1
  /\ ~form.loading
  /\ form.category # "" /\ form.entryType # ""
  /\ form.sent < MaxRequests
  /\ form' = Fetch([form EXCEPT !.loading = TRUE], form.category, form.entryType,
                   "submit")
  /\ UNCHANGED <<variant, stripe, webhookSecret, db, raced, persistFailed, intents,
                 entries, nextId, files, fileSeq, now, inflight, response>>

\* The continuation after `await fetch' of request r; ok: response.ok
Respond(r, ok) ==
  /\ r \in form.pending
  /\ LET f == [form EXCEPT !.pending = @ \ {r}]
         g == IF ok THEN [f EXCEPT !.clientSecret =
                            [category |-> r.category, entryType |-> r.entryType,
                             seq |-> r.seq]]
              ELSE f
     IN form' = IF r.kind = "submit"
                  THEN [g EXCEPT !.loading = FALSE, !.step = IF ok THEN 2 ELSE @]
                  ELSE g
  /\ UNCHANGED <<variant, stripe, webhookSecret, db, raced, persistFailed, intents,
                 entries, nextId, files, fileSeq, now, inflight, response>>

\* handlePaymentSubmit: confirmCardPayment(clientSecret), POST /api/entries
\* with formData, then the form is reset.  ok: payment and submission succeed
PaymentSubmit(ok) ==
  /\ form.step = 2
  /\ form.clientSecret # NoSecret
  /\ ~form.loading
  /\ form' = IF ok THEN [EmptyForm EXCEPT !.sent = form.sent, !.pending = form.pending]
             ELSE form
  /\ UNCHANGED <<variant, stripe, webhookSecret, db, raced, persistFailed, intents,
                 entries, nextId, files, fileSeq, now, inflight, response>>

----------------------------------------------------------------------------
(* Properties *)

Stored == Range(entries)
Ids(es) == {es[i].id : i \in 1..Len(es)}
Submitted(e) == e.via \in {"submit-verified", "submit-unverified"}
Verifying == stripe /\ webhookSecret

\* C1: submit never persists an entry whose payment intent has not succeeded:
\* every entry stored by a submission references an existing, succeeded intent.
C1_PaymentGate ==
  \A e \in Stored :
    Submitted(e) =>
      /\ e.paymentIntentId \in IntentIds
      /\ Intent(e.paymentIntentId).status = "succeeded"

\* C2: the fee amounts persisted by submit are the ones recorded in the
\* metadata of the referenced payment intent, whatever the request says.
C2_FeesFromMetadata ==
  \A e \in Stored :
    Submitted(e) =>
      /\ e.paymentIntentId \in IntentIds
      /\ LET m == Intent(e.paymentIntentId).metadata IN
           /\ e.entryFee = Dollars(ParseInt(m.entryFee))
           /\ e.stripeFee = Dollars(ParseInt(m.stripeFee))
           /\ e.totalAmount = Dollars(Plus(ParseInt(m.entryFee), ParseInt(m.stripeFee)))

\* C3: no two stored entries share a paymentIntentId.
C3_OneEntryPerIntent ==
  \A i, j \in 1..Len(entries) :
    i # j => entries[i].paymentIntentId # entries[j].paymentIntentId

\* C4: an entry is 'succeeded' at the moment it is inserted, and no stored
\* entry is ever 'pending'.
C4_InsertedSucceeded ==
  /\ [](\A e \in Stored : e.paymentStatus # "pending")
  /\ [][\A i \in 1..Len(entries') :
          entries'[i].id \notin Ids(entries) => entries'[i].paymentStatus = "succeeded"]_vars

C4_Witness ==
  /\ response = Resp("submit", 201, "")
  /\ entries # <<>>
  /\ entries[Len(entries)].via = "submit-verified"
  /\ entries[Len(entries)].paymentStatus = "succeeded"

\* C5: paymentStatus is monotone: the only change of a stored entry's status
\* is succeeded -> failed, and a failed entry stays failed.
C5_StatusMonotone ==
  [][\A i \in 1..Len(entries), j \in 1..Len(entries') :
       (entries[i].id = entries'[j].id
          /\ entries[i].paymentStatus # entries'[j].paymentStatus)
       => (entries[i].paymentStatus = "succeeded"
             /\ entries'[j].paymentStatus = "failed")]_vars

C5_Witness ==
  /\ \E e \in Stored : e.paymentStatus = "failed" /\ e.deliveries = MaxDeliveries
  /\ response.op \in {"submit", "delete", "testEntry"}

\* C6: every stored entry was inserted by the submission path after the
\* payment intent was fetched and found succeeded.
C6_OnlyVerifiedSubmissions ==
  \A e \in Stored : e.via = "submit-verified"

\* C7: a delete of an existing entry by someone who is not its owner is
\* answered 403 and leaves the store unchanged.
C7_DeleteOwnerScoped ==
  [][\A id \in 1..MaxEntries, u \in Owners :
       (IndexOf(id) # {} /\ Found(id).userId # u /\ DeleteEntry(id, u, TRUE))
       => (response'.status = 403 /\ entries' = entries)]_vars

\* C8: when a pitch-deck entry is deleted, its file leaves the file storage.
C8_DeleteDiscardsFile ==
  [][\A e \in Stored :
       (e.id \notin Ids(entries') /\ e.entryType = "pitch-deck" /\ e.fileUrl # NoUrl)
       => e.fileUrl \notin DOMAIN files']_vars

C10_BadSignatureRejected ==
  [][\A n \in 1..MaxIntents, type \in EventTypes, dbOk \in BOOLEAN :
       (Verifying /\ Webhook(Pi(n), type, FALSE, dbOk))
       => (response'.status = 400 /\ entries' = entries)]_vars

\* C11: once the signature of a webhook event is valid the endpoint answers
\* 200, also when the store cannot be reached or the update fails.
C11_ValidEventAnswered200 ==
  [][\A n \in 1..MaxIntents, type \in EventTypes, dbOk \in BOOLEAN :
       (WebhookGate(TRUE).status = 0 /\ Webhook(Pi(n), type, TRUE, dbOk))
       => response'.status = 200]_vars

\* C12: an entry stored as 'succeeded' after the payment_failed event of its
\* intent was already handled as a no-op does not stay 'succeeded' forever:
\* it is eventually 'failed'.
C12_RaceCorrected ==
  \A n \in 1..MaxIntents :
    [](/\ Pi(n) \in raced
       /\ \E e \in Stored : e.paymentIntentId = Pi(n) /\ e.paymentStatus = "succeeded"
       => <>(\A e \in Stored : e.paymentIntentId = Pi(n) => e.paymentStatus = "failed"))

\* C13: the list of an owner never carries the file payload of an entry,
\* while fetching a stored pitch deck by id, or downloading it, returns the
\* payload.
C13_ListOmitsPayload ==
  /\ \A u \in Owners :
       \A i \in 1..Len(ListResult(u)) : ListResult(u)[i].fileData = NoData
  /\ \A e \in Stored :
       e.fileData # NoData =>
         /\ FetchResponse(e.id, TRUE) = RespBody("fetch", e)
         /\ DownloadResponse(e.id, TRUE) = RespBody("download", GoodFile.bytes)

C13_Witness ==
  /\ response.op = "list" /\ response.status = 200
  /\ Len(response.body) > 0
  /\ response.body[1].fileData = NoData
  /\ \E e \in Stored : e.id = response.body[1].id /\ e.fileData # NoData

\* C14: the list of an owner holds exactly the stored entries of that owner,
\* each once, newest first.
C14_ListExact ==
  \A u \in Owners :
    LET r == ListResult(u) IN
      /\ {r[i].id : i \in 1..Len(r)} = {e.id : e \in {x \in Stored : x.userId = u}}
      /\ Len(r) = Cardinality({i \in 1..Len(entries) : entries[i].userId = u})
      /\ \A i, j \in 1..Len(r) : i < j => r[i].createdAt >= r[j].createdAt

\* The rules of the entry validator: required fields, title length, word
\* count of a text entry, file of a pitch deck.
Invalid(req) ==
  \/ MissingRequired(req)
  \/ req.titleLen < 5 \/ req.titleLen > 100
  \/ req.entryType = "text" /\ (req.textWords < 100 \/ req.textWords > 2000)
  \/ req.entryType = "pitch-deck" /\ (req.file = NoFile \/ UploadError(req.file) # "")

\* The request names an intent that Stripe reports as succeeded.
Paid(req) ==
  /\ req.paymentIntentId \in IntentIds
  /\ Intent(req.paymentIntentId).status = "succeeded"

\* A step of the submit handler for request req.
SubmitStep(req, dbOk) ==
  \/ SubmitReceive(req, dbOk)
  \/ \E f \in inflight : f.req = req /\ SubmitSave(f, dbOk)
  \/ SubmitUnverified(req, dbOk)

\* C15: a paid submission that fails entry validation leaves the entry store and
\* the file storage exactly as they were.
C15_InvalidSubmitNoEffect ==
  [][\A req \in SubmitRequests :
       (Invalid(req) /\ Paid(req) /\ SubmitStep(req, TRUE))
       => (entries' = entries /\ files' = files)]_vars

\* C16: with the payment client configured and the store reachable, submit
\* answers 201 when it stores the entry, 400 on every validation
\* failure, 400 or 402 when the payment has not succeeded, and 500 only when
\* the store fails.
C16_SubmitStatusCodes ==
  [][\A req \in SubmitRequests :
       (stripe /\ SubmitStep(req, TRUE) /\ inflight' \subseteq inflight)
       => /\ entries' # entries => response'.status = 201
          /\ Invalid(req) => response'.status = 400
          /\ (~Invalid(req) /\ ~Paid(req)) => response'.status \in {400, 402}
          /\ response'.status # 500]_vars

\* C17: every stored text entry has a word count between 100 and 2000; a
\* text submission outside that range (99 words) is never persisted.
C17_TextWordCount ==
  \A e \in Stored :
    e.entryType = "text" => (e.textWords >= 100 /\ e.textWords <= 2000)

\* The request carries a pitch-deck file that is too large or of a type
\* other than pdf, ppt, pptx.
BadFile(req) ==
  /\ req.entryType = "pitch-deck"
  /\ req.file # NoFile
  /\ (req.file.size > fileSize \/ req.file.mime \notin allowedTypes)

\* C18: in the servers that take a multipart upload, a pitch-deck submission
\* whose file is larger than 25 * 2^20 bytes or not a pdf, ppt or pptx is
\* rejected (error response, no entry, no file kept), while a paid, well-formed
\* submission whose allowed file has exactly 25 * 2^20 bytes passes the checks.
C18_FileLimits ==
  [][\A req \in SubmitRequests :
       /\ (variant # "mock" /\ BadFile(req) /\ SubmitStep(req, TRUE))
            => /\ response'.status >= 400
               /\ entries' = entries
               /\ files' = files
       /\ (/\ stripe /\ Paid(req) /\ ~Invalid(req)
           /\ req.entryType = "pitch-deck" /\ req.file.size = fileSize
           /\ SubmitReceive(req, TRUE))
            => inflight' # inflight]_vars

\* C19: for each of the four categories the fee computation gives
\* totalAmount = entryFee + ceil(entryFee * 4%), an intent created for such a
\* category charges that total (in cents), and a payment-intent request for
\* any other category is rejected without creating an intent.
C19_FeeComputation ==
  [][LET ceil4(fee) ==
           CHOOSE n \in 0..fee : 100 * n >= 4 * fee /\ 100 * (n - 1) < 4 * fee
     IN \A c \in IntentCategoryInputs, t \in IntentTypeInputs :
          CreatePaymentIntent(c, t) =>
            /\ \A k \in validCategories :
                 calculateFees(baseFees(k)).totalAmount = baseFees(k) + ceil4(baseFees(k))
            /\ (c \in validCategories /\ intents' # intents)
                 => intents'[Len(intents')].amount = 100 * (baseFees(c) + ceil4(baseFees(c)))
            /\ c \notin validCategories
                 => (intents' = intents /\ response'.status >= 400)]_vars

\* C20: every stored entry, whichever operation created it or updated it
\* since, has totalAmount = entryFee + stripeFee, and so have the sample
\* entries of the test routes.
C20_TotalIsSum ==
  /\ \A e \in Stored : e.totalAmount = e.entryFee + e.stripeFee
  /\ \A f \in BulkTestFees : f.totalAmount = f.entryFee + f.stripeFee

\* A submitted entry whose status a webhook has rewritten since, next to a
\* test entry.
C20_Witness ==
  /\ \E e \in Stored : /\ e.via = "submit-verified"
                       /\ e.paymentStatus = "failed"
                       /\ e.stripeFee > 0
  /\ \E e \in Stored : e.via = "test" /\ e.stripeFee > 0

\* C21: the payload served for a stored pitch-deck entry (file endpoint, or
\* download where the file lives in the document) is exactly the bytes that
\* were uploaded with that entry, whatever else was submitted meanwhile.
C21_RoundTrip ==
  \A e \in Stored :
    (Submitted(e) /\ e.entryType = "pitch-deck"
       /\ (e.fileUrl # NoUrl \/ e.fileData # NoData))
    => IF variant = "base64"
         THEN DownloadResponse(e.id, TRUE) = RespBody("download", e.uploaded)
         ELSE FileResponse(e.fileUrl) = RespBody("file", e.uploaded)

\* C22: the health endpoint answers 200 with a database status field, whether
\* or not the database can be reached.
C22_HealthAlways200 ==
  [][\A dbOk \in BOOLEAN :
       Health(dbOk) => (response'.status = 200 /\ "body" \in DOMAIN response')]_vars

\* C23: whatever is missing from the environment, the process is running (so
\* the health endpoint can be reached); without the payment key the
\* payment-intent endpoint answers 5xx, and without the database the list
\* endpoint of a server that uses one answers 5xx.
C23_DegradesGracefully ==
  /\ Running
  /\ ~stripe => \A c \in IntentCategoryInputs, t \in IntentTypeInputs :
                  CreateIntentError(c, t).status >= 500
  /\ variant # "memory" => \A u \in Owners : ListResponse(u, FALSE).status >= 500

\* C24: after a submission whose entry could not be persisted, a well-formed
\* submission with the same, still succeeded, payment intent passes the
\* payment check again and, the store answering, is persisted with a 201.
C24_RetryAfterPersistFailure ==
  [][/\ \A req \in SubmitRequests :
          (/\ req.paymentIntentId \in persistFailed
           /\ stripe /\ Paid(req) /\ ~Invalid(req)
           /\ SubmitReceive(req, TRUE))
          => inflight' = inflight \cup {f \in inflight' : f.req = req} /\ inflight' # inflight
     /\ \A f \in inflight :
          (/\ f.req.paymentIntentId \in persistFailed
           /\ Paid(f.req) /\ ~Invalid(f.req)
           /\ SubmitSaveLogged(f, TRUE))
          => /\ response' = Resp("submit", 201, "")
             /\ Len(entries') = Len(entries) + 1
             /\ entries'[Len(entries')].paymentIntentId = f.req.paymentIntentId
             /\ entries'[Len(entries')].userId = f.req.userId]_vars

\* An entry persisted by a submission whose intent had seen a failed save.
C24_Witness ==
  /\ response = Resp("submit", 201, "")
  /\ \E e \in Stored : /\ e.paymentIntentId \in persistFailed
                       /\ e.via = "submit-verified"
                       /\ e.paymentStatus = "succeeded"

\* C25: a submission that breaks a validation rule is refused with a 400 by the
\* checks that run before stripe.paymentIntents.retrieve, whatever the state
\* of the intent it names: Stripe is not asked about it.
C25_ValidateBeforePayment ==
  [][\A req \in SubmitRequests :
       (Invalid(req) /\ stripe /\ SubmitReceive(req, TRUE))
       => /\ PreCheck(req, TRUE).status = 400
          /\ response' = PreCheck(req, TRUE)
          /\ inflight' = inflight]_vars

\* C26: an intent created by create-payment-intent carries the request's
\* category and entryType and the two fees as metadata, and its amount is
\* 100 * (metadata.entryFee + metadata.stripeFee).
C26_IntentAmountAndMetadata ==
  [][\A c \in IntentCategoryInputs, t \in IntentTypeInputs :
       (CreatePaymentIntent(c, t) /\ intents' # intents)
       => LET i == intents'[Len(intents')]
              entryFee == ParseInt(i.metadata.entryFee)
              stripeFee == ParseInt(i.metadata.stripeFee)
          IN /\ i.metadata.category = c
             /\ i.metadata.entryType = t
             /\ entryFee # NaN /\ stripeFee # NaN
             /\ i.amount = 100 * (entryFee + stripeFee)]_vars

\* C27: connectDB returns without connecting while the connection is up, and
\* when the connection is down (never made, failed, or lost) it calls
\* mongoose.connect again.
C27_ConnectionReuse ==
  [][\A reachable \in BOOLEAN :
       ConnectDB(reachable)
       => /\ db.readyState = 1
               => (db'.connects = db.connects /\ db'.last = "reused")
          /\ db.readyState # 1
               => (db'.connects = db.connects + 1 /\ db'.last # "reused")]_vars

\* The fields of an entry document (the history fields left out) other than
\* paymentStatus.
Frame(e) ==
  [k \in DOMAIN e \ {"paymentStatus", "transitions", "deliveries", "uploaded"} |-> e[k]]

\* C28: an entry that stays in the store keeps every field but paymentStatus
\* in every step, and its paymentStatus changes only in a webhook step for an
\* event of the entry's own payment intent.
C28_OnlyStatusChanges ==
  [][\A i \in 1..Len(entries), j \in 1..Len(entries') :
       (entries' # entries /\ entries'[j].id = entries[i].id)
       => /\ Frame(entries'[j]) = Frame(entries[i])
          /\ entries'[j].paymentStatus # entries[i].paymentStatus
               => \E n \in 1..MaxIntents, type \in EventTypes, dbOk \in BOOLEAN :
                    /\ Pi(n) = entries[i].paymentIntentId
                    /\ Webhook(Pi(n), type, TRUE, dbOk)]_vars

\* A webhook has just marked an entry failed next to an entry of another
\* payment intent.
C28_Witness ==
  /\ response = Resp("webhook", 200, "")
  /\ \E e1, e2 \in Stored : /\ e1.paymentStatus = "failed" /\ e1.transitions = 1
                            /\ e2.paymentIntentId # e1.paymentIntentId
                            /\ e2.paymentStatus = "succeeded"

\* C29: an entry stored by the verifying submit has the category and the
\* entryType its payment intent was created for, and its entryFee is the
\* fee of its own category.
C29_EntryMatchesIntent ==
  \A e \in Stored :
    (e.via = "submit-verified" /\ e.paymentIntentId \in IntentIds)
    => /\ Intent(e.paymentIntentId).metadata.category = e.category
       /\ Intent(e.paymentIntentId).metadata.entryType = e.entryType
       /\ e.entryFee = baseFees(e.category) * Mills

\* C30: the answer to an earlier create-payment-intent request never replaces
\* the clientSecret (and fees) set by the answer to a later one, and when the
\* user pays, the clientSecret in state belongs to an intent created for the
\* category and entryType shown in the form.
C30_SecretMatchesForm ==
  [][/\ \A r \in form.pending :
          Respond(r, TRUE) => r.seq >= form.clientSecret.seq
     /\ PaymentSubmit(TRUE)
          => /\ form.clientSecret.category = form.category
             /\ form.clientSecret.entryType = form.entryType]_vars

----------------------------------------------------------------------------
Next ==
  \/ Tick
  \/ \E c \in IntentCategoryInputs, t \in IntentTypeInputs :
       CreatePaymentIntent(c, t)
  \/ \E p \in 1..MaxIntents : ClientPays(p)
  \/ \E req \in SubmitRequests, dbOk \in BOOLEAN : SubmitReceive(req, dbOk)
  \/ \E f \in inflight, dbOk \in BOOLEAN : SubmitSave(f, dbOk)
  \/ \E req \in SubmitRequests, dbOk \in BOOLEAN : SubmitUnverified(req, dbOk)
  \/ \E u \in Owners, dbOk \in BOOLEAN : CreateTestEntry(u, dbOk)
  \/ \E n \in 1..MaxIntents, type \in EventTypes, sigValid \in BOOLEAN, dbOk \in BOOLEAN :
       Webhook(Pi(n), type, sigValid, dbOk)
  \/ \E id \in 0..MaxEntries, u \in Owners \cup {Missing}, dbOk \in BOOLEAN :
       DeleteEntry(id, u, dbOk)

Spec == Init /\ [][Next]_vars

\* The same servers with their read endpoints; the webhook, which only
\* rewrites paymentStatus, is left out.
ReadNext ==
  \/ Tick
  \/ \E c \in IntentCategoryInputs, t \in IntentTypeInputs : CreatePaymentIntent(c, t)
  \/ \E p \in 1..MaxIntents : ClientPays(p)
  \/ \E req \in SubmitRequests, dbOk \in BOOLEAN : SubmitReceive(req, dbOk)
  \/ \E f \in inflight, dbOk \in BOOLEAN : SubmitSave(f, dbOk)
  \/ \E req \in SubmitRequests, dbOk \in BOOLEAN : SubmitUnverified(req, dbOk)
  \/ \E u \in Owners, dbOk \in BOOLEAN : CreateTestEntry(u, dbOk)
  \/ \E id \in 0..MaxEntries, u \in Owners \cup {Missing}, dbOk \in BOOLEAN :
       DeleteEntry(id, u, dbOk)
  \/ \E u \in Owners \cup {Missing}, dbOk \in BOOLEAN : ListEntries(u, dbOk)
  \/ \E id \in 0..MaxEntries, dbOk \in BOOLEAN : FetchEntry(id, dbOk)
  \/ \E id \in 0..MaxEntries, dbOk \in BOOLEAN : DownloadEntry(id, dbOk)
  \/ \E key \in FileKeys : GetFile(key)

ReadSpec == Init /\ [][ReadNext]_vars

\* Many submissions of one owner, and the list.
BulkRequest == Request("userB", "business", "text", 1)

BulkNext ==
  \/ Tick
  \/ SubmitUnverifiedUpTo(BulkRequest, TRUE, MaxListed)
  \/ \E u \in Owners : ListEntries(u, TRUE)

BulkSpec == Init /\ [][BulkNext]_vars

\* Submission, payment events and reads only.  Clients keep reading; nothing
\* in the servers schedules a reconciliation, and Stripe does not send an
\* event again that was answered 200.
RaceNext ==
  \/ Tick
  \/ \E c \in IntentCategoryInputs, t \in IntentTypeInputs : CreatePaymentIntent(c, t)
  \/ \E p \in 1..MaxIntents : ClientPays(p)
  \/ \E req \in SubmitRequests, dbOk \in BOOLEAN : SubmitReceive(req, dbOk)
  \/ \E f \in inflight, dbOk \in BOOLEAN : SubmitSave(f, dbOk)
  \/ \E n \in 1..MaxIntents, type \in EventTypes, sigValid \in BOOLEAN, dbOk \in BOOLEAN :
       WebhookRaced(Pi(n), type, sigValid, dbOk)
  \/ \E u \in Owners, dbOk \in BOOLEAN : ListEntries(u, dbOk)
  \/ \E id \in 1..MaxEntries, dbOk \in BOOLEAN : FetchEntry(id, dbOk)

RaceSpec ==
  /\ Init
  /\ [][RaceNext]_vars
  /\ WF_vars(\E u \in Owners : ListEntries(u, TRUE))
  /\ WF_vars(\E id \in 1..MaxEntries : FetchEntry(id, TRUE))

\* Two owners upload different decks under the same file name.
OtherDeck ==
  [Request("userB", "technology", "pitch-deck", 1) EXCEPT !.file.bytes = "b2"]

UploadRequests == {Request("userA", "technology", "pitch-deck", 1), OtherDeck}

UploadNext ==
  \/ Tick
  \/ \E c \in IntentCategoryInputs, t \in IntentTypeInputs : CreatePaymentIntent(c, t)
  \/ \E p \in 1..MaxIntents : ClientPays(p)
  \/ \E req \in UploadRequests, dbOk \in BOOLEAN : SubmitReceive(req, dbOk)
  \/ \E f \in inflight, dbOk \in BOOLEAN : SubmitSave(f, dbOk)
  \/ \E req \in UploadRequests, dbOk \in BOOLEAN : SubmitUnverified(req, dbOk)
  \/ \E id \in 1..MaxEntries, dbOk \in BOOLEAN : DownloadEntry(id, dbOk)
  \/ \E key \in FileKeys : GetFile(key)

UploadSpec == Init /\ [][UploadNext]_vars

\* The servers under submissions and health checks.
HealthNext ==
  \/ Tick
  \/ \E c \in IntentCategoryInputs, t \in IntentTypeInputs : CreatePaymentIntent(c, t)
  \/ \E p \in 1..MaxIntents : ClientPays(p)
  \/ \E req \in GoodRequests, dbOk \in BOOLEAN : SubmitReceive(req, dbOk)
  \/ \E f \in inflight, dbOk \in BOOLEAN : SubmitSave(f, dbOk)
  \/ \E req \in GoodRequests, dbOk \in BOOLEAN : SubmitUnverified(req, dbOk)
  \/ \E dbOk \in BOOLEAN : Health(dbOk)

HealthSpec == Init /\ [][HealthNext]_vars

\* Submissions with store failures recorded: the client submits again.
RetryNext ==
  \/ Tick
  \/ \E c \in IntentCategoryInputs, t \in IntentTypeInputs : CreatePaymentIntent(c, t)
  \/ \E p \in 1..MaxIntents : ClientPays(p)
  \/ \E req \in SubmitRequests, dbOk \in BOOLEAN : SubmitReceive(req, dbOk)
  \/ \E f \in inflight, dbOk \in BOOLEAN : SubmitSaveLogged(f, dbOk)

RetrySpec == Init /\ [][RetryNext]_vars

\* The connection handling alone, in the servers that have it.
ConnInit ==
  /\ variant \in ConnVariants
  /\ InitState

ConnNext ==
  \/ \E reachable \in BOOLEAN : ConnectDB(reachable)
  \/ ConnectionLost

ConnSpec == ConnInit /\ [][ConnNext]_vars

\* The entry form in the browser, the servers answering its requests.
FormNext ==
  \/ \E c \in FormCategories : ChangeCategory(c)
  \/ \E t \in FormTypes : ChangeEntryType(t)
  \/ FormSubmit
  \/ \E r \in form.pending, ok \in BOOLEAN : Respond(r, ok)
  \/ \E ok \in BOOLEAN : PaymentSubmit(ok)

FormSpec == Init /\ [][FormNext]_vars
====
